---- MODULE Spec2Model ----
(***************************************************************************)
(* Model of scripts/read_serial.py: discovery of the Pico's serial port    *)
(* (find_pico_port) and the read loop of main.                             *)
(*                                                                         *)
(* One action per statement of main.  The environment is everything the    *)
(* script does not own: the device nodes that the two glob patterns match, *)
(* the bytes the device sends, the I/O errors raised by the serial library *)
(* and by print, and KeyboardInterrupt, which can be delivered before any  *)
(* statement of main, any number of times.                                 *)
(*                                                                         *)
(* The serial library is modelled by its contract: serial.Serial(...)      *)
(* either returns an open handle or raises and leaves no handle open, and  *)
(* leaving the `with` block by any exception closes the handle.            *)
(***************************************************************************)
EXTENDS Integers, Sequences, FiniteSets

VARIABLES
    usbmodem,    \* what glob.glob('/dev/tty.usbmodem*') returns in this run
    acm,         \* what glob.glob('/dev/ttyACM*') returns in this run
    pc,          \* the statement of main that runs next, or "done"
    port,        \* main's local `port`
    ser,         \* the serial handle: "none", "open" or "closed"
    waiting,     \* the value the last ser.in_waiting read returned
    line,        \* main's local `line` (a sequence of code points)
    stdout,      \* everything printed so far, one entry per print call
    exitStatus,  \* the process's exit status once pc = "done"
    escaped,     \* the exception that left main: "none" while there is none
    finds,       \* history: number of calls of find_pico_port
    opens,       \* history: the paths serial.Serial was called with
    reads,       \* history: the byte sequences ser.readline returned
    polls,       \* history: number of in_waiting checks that were non-zero
    events       \* history: the interrupts and errors raised, <<kind, at>>

vars == <<usbmodem, acm, pc, port, ser, waiting, line, stdout, exitStatus,
          escaped, finds, opens, reads, polls, events>>

(***************************************************************************)
(* Bounds and input sets.                                                  *)
(***************************************************************************)
\* The device sends at most this many lines in a run; afterwards it is silent.
MaxReads == 2
\* The byte counts an in_waiting check may report.
WaitingCounts == {0, 1, 5}

None == "None"

\* Device nodes that may exist, per pattern.
UsbmodemNodes == {"/dev/tty.usbmodem101", "/dev/tty.usbmodem1101"}
AcmNodes == {"/dev/ttyACM0", "/dev/ttyACM1"}

\* Every list glob can return for a set of nodes: any subset, in any order.
GlobResults(nodes) ==
    {<<>>} \cup {<<n>> : n \in nodes}
           \cup {<<n, m>> : <<n, m>> \in {q \in nodes \X nodes : q[1] # q[2]}}

\* Byte sequences a readline call may return.  10 = LF, 13 = CR, 32 = space,
\* 97 = 'a', 195 169 = U+00E9, 194 160 = U+00A0 (a whitespace), 255 and a lone
\* 169 or 195 are invalid UTF-8.  Sequences without LF are partial lines returned
\* when the read timeout expires.
RxLines ==
    { <<97, 10>>,                  \* "a\n"
      <<97, 32, 13, 10>>,          \* "a \r\n"
      <<97, 32, 97>>,              \* partial line, inner space
      <<97, 32, 255, 10>>,         \* invalid byte after trailing whitespace
      <<195, 169, 97, 10>>,        \* a valid two-byte character
      <<97, 195>>,                 \* partial line cut inside a character
      <<169, 195, 97, 194, 160>>,  \* lone continuation, lone lead, U+00A0 last
      <<255, 10>> }                \* nothing but an invalid byte and LF

(***************************************************************************)
(* bytes.decode('utf-8', errors=...) for one- and two-byte sequences.      *)
(***************************************************************************)
IsAscii(b) == b < 128
IsLead2(b) == b >= 194 /\ b <= 223
IsCont(b) == b >= 128 /\ b <= 191

DecodeError == <<-1>>

\* The decoder's loop: at index i of bs, with acc decoded so far.
RECURSIVE Utf8DecodeFrom(_, _, _, _)
Utf8DecodeFrom(bs, i, acc, errors) ==
    IF i > Len(bs) THEN acc
    ELSE IF IsAscii(bs[i])
        THEN Utf8DecodeFrom(bs, i + 1, Append(acc, bs[i]), errors)
    ELSE IF IsLead2(bs[i]) /\ i < Len(bs) /\ IsCont(bs[i + 1])
        THEN Utf8DecodeFrom(bs, i + 2,
                 Append(acc, (bs[i] - 192) * 64 + (bs[i + 1] - 128)), errors)
    ELSE IF errors = "ignore"
        THEN Utf8DecodeFrom(bs, i + 1, acc, errors)
    ELSE DecodeError

Utf8Decode(bs, errors) == Utf8DecodeFrom(bs, 1, <<>>, errors)

\* str.isspace for the code points below U+0100.
IsSpace(c) == c \in {9, 10, 11, 12, 13, 28, 29, 30, 31, 32, 133, 160}

\* str.rstrip(): drop the trailing run of whitespace.
RECURSIVE Rstrip(_)
Rstrip(s) ==
    IF s # <<>> /\ IsSpace(s[Len(s)]) THEN Rstrip(SubSeq(s, 1, Len(s) - 1)) ELSE s

\* .decode('utf-8', errors='ignore') of line 33.
DecodeLine(bs) == Utf8Decode(bs, "ignore")

\* Mutant: .rstrip('\n'), which drops line feeds only.
RECURSIVE StripNewlineOnly(_)
StripNewlineOnly(s) ==
    IF s # <<>> /\ s[Len(s)] = 10
    THEN StripNewlineOnly(SubSeq(s, 1, Len(s) - 1)) ELSE s

\* .rstrip() of line 33.
StripLine(s) == Rstrip(s)

(***************************************************************************)
(* find_pico_port                                                          *)
(***************************************************************************)
\* Mutant: the two patterns tried in the other order.
find_pico_port_AcmFirst(usb, tty) ==
    IF tty # <<>> THEN tty[1]
    ELSE IF usb # <<>> THEN usb[1]
    ELSE None

find_pico_port(usb, tty) ==
    IF usb # <<>> THEN usb[1]
    ELSE IF tty # <<>> THEN tty[1]
    ELSE None

(***************************************************************************)
(* Exceptions                                                              *)
(***************************************************************************)
\* The statements inside `with serial.Serial(...) as ser:` (lines 31-34).
InWith == {"poll", "readline", "print_line"}
\* The statements inside `try:` (lines 30-34).
InTry == {"open"} \cup InWith
\* Statements of main that have not run yet.
Running == {"find", "check_port", "print_notfound", "sys_exit", "banner1",
            "banner2", "banner3", "except_ki", "except_exc"} \cup InTry

\* Exit status of the interpreter when an exception leaves main uncaught:
\* 130 for KeyboardInterrupt (death by SIGINT), 1 for anything else.
UncaughtStatus(kind) == IF kind = "KeyboardInterrupt" THEN 130 ELSE 1

\* Mutant: the handle is not managed by a with statement.
SerAfterRaiseNoClose == ser

\* Leaving the with block by an exception runs Serial.__exit__, which closes.
SerAfterRaise == IF pc \in InWith THEN "closed" ELSE ser

\* Mutant: the try statement has no `except Exception` clause.
CaughtOnlyInterrupt(kind) == pc \in InTry /\ kind = "KeyboardInterrupt"

\* Whether an exception of `kind` raised at pc is caught by main: the two
\* except clauses of the try statement catch KeyboardInterrupt and Exception,
\* and nothing is caught outside the try block or inside an except clause.
Caught(kind) == pc \in InTry /\ kind \in {"KeyboardInterrupt", "Exception"}

\* Mutant: a single clause, `except BaseException as e`, handles everything.
HandlerForOneClause(kind) == "except_exc"

\* The except clause that catches `kind`.
HandlerFor(kind) ==
    IF kind = "KeyboardInterrupt" THEN "except_ki" ELSE "except_exc"

\* An exception of `kind` raised by the statement at pc: unwinding.
Raise(kind) ==
    /\ events' = Append(events, <<kind, pc>>)
    /\ ser' = SerAfterRaise
    /\ IF Caught(kind)
       THEN /\ pc' = HandlerFor(kind)
            /\ UNCHANGED <<exitStatus, escaped>>
       ELSE /\ pc' = "done"
            /\ escaped' = kind
            /\ exitStatus' = UncaughtStatus(kind)

(***************************************************************************)
(* main                                                                    *)
(***************************************************************************)
Init ==
    /\ usbmodem \in GlobResults(UsbmodemNodes)
    /\ acm \in GlobResults(AcmNodes)
    /\ pc = "find"
    /\ port = None
    /\ ser = "none"
    /\ waiting = 0
    /\ line = <<>>
    /\ stdout = <<>>
    /\ exitStatus = -1
    /\ escaped = "none"
    /\ finds = 0
    /\ opens = <<>>
    /\ reads = <<>>
    /\ polls = 0
    /\ events = <<>>

\* print(...) succeeding: one more entry on stdout.  An entry is the tuple of
\* the pieces of the printed text.
PrintOut(entry) == stdout' = Append(stdout, entry)

\* line 20: port = find_pico_port()
CallFind ==
    /\ pc = "find"
    /\ port' = find_pico_port(usbmodem, acm)
    /\ finds' = finds + 1
    /\ pc' = "check_port"
    /\ UNCHANGED <<usbmodem, acm, ser, waiting, line, stdout, exitStatus,
                   escaped, opens, reads, polls, events>>

\* line 21: if not port:
CheckPort ==
    /\ pc = "check_port"
    /\ pc' = IF port = None THEN "print_notfound" ELSE "banner1"
    /\ UNCHANGED <<usbmodem, acm, port, ser, waiting, line, stdout, exitStatus,
                   escaped, finds, opens, reads, polls, events>>

\* line 22: print("Error: Pico serial port not found")
PrintNotFound ==
    /\ pc = "print_notfound"
    /\ PrintOut(<<"Error: Pico serial port not found">>)
    /\ pc' = "sys_exit"
    /\ UNCHANGED <<usbmodem, acm, port, ser, waiting, line, exitStatus,
                   escaped, finds, opens, reads, polls, events>>

\* Mutant: line 23 is missing, and main carries on after the message.
SysExitFallsThrough ==
    /\ pc = "sys_exit"
    /\ pc' = "banner1"
    /\ UNCHANGED <<usbmodem, acm, port, ser, waiting, line, stdout, exitStatus,
                   escaped, finds, opens, reads, polls, events>>

\* line 23: sys.exit(1) raises SystemExit(1), which no handler of main catches.
SysExit ==
    /\ pc = "sys_exit"
    /\ escaped' = "SystemExit"
    /\ exitStatus' = 1
    /\ pc' = "done"
    /\ UNCHANGED <<usbmodem, acm, port, ser, waiting, line, stdout,
                   finds, opens, reads, polls, events>>

\* "-" * 50 of line 27
Dashes == "--------------------------------------------------"

\* lines 25-27: the banner
PrintBanner ==
    /\ \/ pc = "banner1" /\ PrintOut(<<"Reading from ", port, " @ 115200 baud">>)
                         /\ pc' = "banner2"
       \/ pc = "banner2" /\ PrintOut(<<"Press Ctrl+C to exit\n">>) /\ pc' = "banner3"
       \/ pc = "banner3" /\ PrintOut(<<Dashes>>) /\ pc' = "open"
    /\ UNCHANGED <<usbmodem, acm, port, ser, waiting, line, exitStatus,
                   escaped, finds, opens, reads, polls, events>>

\* line 30: with serial.Serial(port, 115200, timeout=1) as ser: the port opens
OpenPort ==
    /\ pc = "open"
    /\ opens' = Append(opens, port)
    /\ ser' = "open"
    /\ pc' = "poll"
    /\ UNCHANGED <<usbmodem, acm, port, waiting, line, stdout, exitStatus,
                   escaped, finds, reads, polls, events>>

\* line 30: serial.Serial(...) raises (no such device, permission, busy)
OpenFails ==
    /\ pc = "open"
    /\ opens' = Append(opens, port)
    /\ Raise("Exception")
    /\ UNCHANGED <<usbmodem, acm, port, waiting, line, stdout,
                   finds, reads, polls>>

\* Mutant: `while ser.in_waiting:`, which leaves the loop when nothing waits.
PollExitsWhenIdle(n) ==
    /\ pc = "poll"
    /\ waiting' = n
    /\ polls' = IF n # 0 THEN polls + 1 ELSE polls
    /\ pc' = IF n # 0 THEN "readline" ELSE "done"
    /\ ser' = IF n # 0 THEN ser ELSE "closed"
    /\ exitStatus' = IF n # 0 THEN exitStatus ELSE 0
    /\ UNCHANGED <<usbmodem, acm, port, line, stdout,
                   escaped, finds, opens, reads, events>>

\* Mutant: the loop reads without looking at the result of the check.
PollUnchecked(n) ==
    /\ pc = "poll"
    /\ waiting' = n
    /\ polls' = IF n # 0 THEN polls + 1 ELSE polls
    /\ pc' = "readline"
    /\ UNCHANGED <<usbmodem, acm, port, ser, line, stdout, exitStatus,
                   escaped, finds, opens, reads, events>>

\* lines 31-32: while True: if ser.in_waiting: with n bytes available
Poll(n) ==
    /\ pc = "poll"
    /\ waiting' = n
    /\ polls' = IF n # 0 THEN polls + 1 ELSE polls
    /\ pc' = IF n # 0 THEN "readline" ELSE "poll"
    /\ UNCHANGED <<usbmodem, acm, port, ser, line, stdout, exitStatus,
                   escaped, finds, opens, reads, events>>

\* line 33: line = ser.readline().decode('utf-8', errors='ignore').rstrip()
\* with readline returning bs
ReadLine(bs) ==
    /\ pc = "readline"
    /\ reads' = Append(reads, bs)
    /\ IF DecodeLine(bs) = DecodeError
       THEN /\ Raise("Exception")
            /\ UNCHANGED line
       ELSE /\ line' = StripLine(DecodeLine(bs))
            /\ pc' = "print_line"
            /\ UNCHANGED <<ser, exitStatus, escaped, events>>
    /\ UNCHANGED <<usbmodem, acm, port, waiting, stdout, finds, opens, polls>>

\* line 34: print(line)
PrintLine ==
    /\ pc = "print_line"
    /\ PrintOut(<<"line", line>>)
    /\ pc' = "poll"
    /\ UNCHANGED <<usbmodem, acm, port, ser, waiting, line, exitStatus,
                   escaped, finds, opens, reads, polls, events>>

\* A statement of the loop raises an I/O error: ser.in_waiting or
\* ser.readline() (device unplugged), or print (stdout closed).
LoopIOError ==
    /\ pc \in InWith
    /\ Raise("Exception")
    /\ UNCHANGED <<usbmodem, acm, port, waiting, line, stdout,
                   finds, opens, reads, polls>>

\* A print outside the try block, or inside a handler, raises.
PrintFails ==
    /\ pc \in {"print_notfound", "banner1", "banner2", "banner3",
               "except_ki", "except_exc"}
    /\ Raise("Exception")
    /\ UNCHANGED <<usbmodem, acm, port, waiting, line, stdout,
                   finds, opens, reads, polls>>

\* Ctrl+C: KeyboardInterrupt is raised before the statement at pc runs.
Interrupt ==
    /\ pc \in Running
    /\ Raise("KeyboardInterrupt")
    /\ UNCHANGED <<usbmodem, acm, port, waiting, line, stdout,
                   finds, opens, reads, polls>>

\* str(e) in the Exception clause: e is the exception that was raised last,
\* told apart here by the statement that raised it.
CaughtError == events[Len(events)][2]

\* main returns and the interpreter exits with status 0.
ReturnFromMain ==
    /\ pc' = "done"
    /\ exitStatus' = 0

\* lines 35-36: except KeyboardInterrupt: print("\n\nExiting...")
HandleInterrupt ==
    /\ pc = "except_ki"
    /\ PrintOut(<<"\n\nExiting...">>)
    /\ ReturnFromMain
    /\ UNCHANGED <<usbmodem, acm, port, ser, waiting, line,
                   escaped, finds, opens, reads, polls, events>>

\* Mutant: the clause prints and re-raises.
HandleExceptionReraises ==
    /\ pc = "except_exc"
    /\ PrintOut(<<"Error: ", CaughtError>>)
    /\ pc' = "done"
    /\ escaped' = "Exception"
    /\ exitStatus' = 1
    /\ UNCHANGED <<usbmodem, acm, port, ser, waiting, line,
                   finds, opens, reads, polls, events>>

\* Mutant: the clause prints and goes back to opening the port.
HandleExceptionReconnects ==
    /\ pc = "except_exc"
    /\ PrintOut(<<"Error: ", CaughtError>>)
    /\ pc' = "open"
    /\ UNCHANGED <<usbmodem, acm, port, ser, waiting, line, exitStatus,
                   escaped, finds, opens, reads, polls, events>>

\* lines 37-38: except Exception as e: print(f"Error: {e}")
HandleException ==
    /\ pc = "except_exc"
    /\ PrintOut(<<"Error: ", CaughtError>>)
    /\ ReturnFromMain
    /\ UNCHANGED <<usbmodem, acm, port, ser, waiting, line,
                   escaped, finds, opens, reads, polls, events>>

Next ==
    \/ CallFind
    \/ CheckPort
    \/ PrintNotFound
    \/ SysExit
    \/ PrintBanner
    \/ OpenPort
    \/ OpenFails
    \/ \E n \in WaitingCounts : (n = 0 \/ Len(reads) < MaxReads) /\ Poll(n)
    \/ \E bs \in RxLines : ReadLine(bs)
    \/ PrintLine
    \/ LoopIOError
    \/ PrintFails
    \/ Interrupt
    \/ HandleInterrupt
    \/ HandleException

Spec == Init /\ [][Next]_vars

(***************************************************************************)
(* Vocabulary of the properties                                            *)
(***************************************************************************)
Terminated == pc = "done"

\* The statements of the read loop (lines 32-34) and of the try block
\* (lines 30-34), by name.
LoopStatements == {"poll", "readline", "print_line"}
TryStatements == {"open", "poll", "readline", "print_line"}

NotFoundMsg == <<"Error: Pico serial port not found">>
FarewellMsg == <<"\n\nExiting...">>

\* The kinds of entry on stdout.
IsErrorMsg(e) == e[1] = "Error: "
IsDataLine(e) == e[1] = "line"

LastOut == IF stdout = <<>> THEN <<"nothing">> ELSE stdout[Len(stdout)]

\* The first interrupt or error of the run was of `kind` and hit the read loop.
FirstEventInLoop(kind) ==
    /\ events # <<>>
    /\ events[1][1] = kind
    /\ events[1][2] \in LoopStatements

(***************************************************************************)
(* C1: find_pico_port returns the first '/dev/tty.usbmodem*' match when    *)
(* there is one, whatever '/dev/ttyACM*' matches; otherwise the first      *)
(* '/dev/ttyACM*' match when there is one; and None exactly when neither   *)
(* pattern matches.                                                        *)
(***************************************************************************)
C1_DiscoveryPriority ==
    finds > 0 =>
        /\ usbmodem # <<>> => port = Head(usbmodem)
        /\ (usbmodem = <<>> /\ acm # <<>>) => port = Head(acm)
        /\ port = None <=> (usbmodem = <<>> /\ acm = <<>>)

\* Both patterns match two nodes each and the usbmodem one was returned.
C1_Witness ==
    /\ finds > 0
    /\ Len(usbmodem) = 2 /\ Len(acm) = 2
    /\ port = usbmodem[1]

(***************************************************************************)
(* C2: when discovery finds nothing, the port is never opened, the banner  *)
(* is never printed, the read loop is never entered, and the process ends  *)
(* with a non-zero status; the run that nothing disturbs prints exactly    *)
(* the not-found message and exits with status 1 by sys.exit.              *)
(***************************************************************************)
C2_NotFoundExits ==
    (finds > 0 /\ port = None) =>
        /\ ser = "none" /\ opens = <<>>
        /\ polls = 0 /\ reads = <<>>
        /\ pc \in {"check_port", "print_notfound", "sys_exit", "done"}
        /\ \A i \in DOMAIN stdout : stdout[i] = NotFoundMsg
        /\ Terminated => exitStatus # 0
        /\ (Terminated /\ events = <<>>) =>
               /\ stdout = <<NotFoundMsg>>
               /\ exitStatus = 1
               /\ escaped = "SystemExit"

\* The undisturbed not-found run has ended.
C2_Witness ==
    /\ Terminated /\ port = None /\ finds > 0 /\ events = <<>>
    /\ stdout = <<NotFoundMsg>> /\ exitStatus = 1

(***************************************************************************)
(* C3: no terminated state has the serial handle still open.               *)
(***************************************************************************)
C3_HandleReleased == Terminated => ser # "open"

\* A run that opened the port, read a line and ended on an I/O error, with the
\* handle closed.
C3_Witness ==
    /\ Terminated /\ ser = "closed" /\ opens # <<>> /\ reads # <<>>
    /\ events[1][1] = "Exception"

(***************************************************************************)
(* C4: an interrupt that hits the read loop (at the in_waiting check, at   *)
(* readline/decode or at print) closes the handle and is caught by the     *)
(* KeyboardInterrupt clause; the loop is not resumed; and when nothing     *)
(* else is raised afterwards the run ends with the farewell message as its *)
(* last output, no exception leaving main, and status 0.                   *)
(***************************************************************************)
C4_InterruptCleanExit ==
    FirstEventInLoop("KeyboardInterrupt") =>
        /\ ser = "closed"
        /\ pc \in {"except_ki", "done"}
        /\ Len(events) = 1 =>
               /\ escaped = "none"
               /\ pc = "except_ki" => \A i \in DOMAIN stdout : stdout[i] # FarewellMsg
               /\ Terminated => (exitStatus = 0 /\ LastOut = FarewellMsg)

\* The interrupt arrived at the print of a line that had been read.
C4_Witness ==
    /\ Terminated /\ events = <<<<"KeyboardInterrupt", "print_line">>>>
    /\ exitStatus = 0 /\ LastOut = FarewellMsg /\ ser = "closed"

(***************************************************************************)
(* C5: an I/O exception raised in the read loop (by the in_waiting check,  *)
(* by readline or by print) closes the handle and is caught by the         *)
(* Exception clause; the loop is not resumed; and when nothing else is     *)
(* raised afterwards the run ends with the error message as its last       *)
(* output, no exception leaving main, and status 0.                        *)
(***************************************************************************)
C5_LoopErrorCaught ==
    FirstEventInLoop("Exception") =>
        /\ ser = "closed"
        /\ pc \in {"except_exc", "done"}
        /\ Len(events) = 1 =>
               /\ escaped = "none"
               /\ pc = "except_exc" => \A i \in DOMAIN stdout : ~IsErrorMsg(stdout[i])
               /\ Terminated => (exitStatus = 0 /\ IsErrorMsg(LastOut))

\* The error was raised by readline after one line had been printed.
C5_Witness ==
    /\ Terminated /\ events = <<<<"Exception", "readline">>>>
    /\ Len(reads) = 1
    /\ exitStatus = 0 /\ IsErrorMsg(LastOut) /\ ser = "closed"

(***************************************************************************)
(* C6: once the port is open, only an interrupt or an exception ends the   *)
(* read loop: while neither has been raised the program is in the loop     *)
(* with the handle open, however many lines arrived and also when the last *)
(* check found nothing waiting.                                            *)
(***************************************************************************)
C6_LoopUnbounded ==
    (opens # <<>> /\ events = <<>>) =>
        /\ pc \in LoopStatements
        /\ ser = "open"
        /\ ~Terminated

\* The device sent all it had, the next check found nothing, the loop goes on.
C6_Witness ==
    /\ events = <<>> /\ Len(reads) = MaxReads
    /\ pc = "poll" /\ waiting = 0 /\ ser = "open"
    /\ Len(stdout) = 3 + MaxReads

(***************************************************************************)
(* C7, as claimed: every terminated run shows one of three outcomes,       *)
(* (a) the not-found message and a non-zero status, (b) the farewell       *)
(* message and status 0, (c) the error message and status 0, wherever the  *)
(* interrupt or the error hit.                                             *)
(***************************************************************************)
OutcomeNotFound == LastOut = NotFoundMsg /\ exitStatus # 0
OutcomeFarewell == LastOut = FarewellMsg /\ exitStatus = 0
OutcomeError == IsErrorMsg(LastOut) /\ exitStatus = 0

C7_ThreeOutcomesOnly ==
    Terminated => (OutcomeNotFound \/ OutcomeFarewell \/ OutcomeError)

(***************************************************************************)
(* C7, amended: every terminated run ends in exactly one of four ways.     *)
(* (a) nothing was raised, the not-found message is the only output and    *)
(* sys.exit gives status 1; (b) one interrupt, raised inside the try       *)
(* block, the farewell message last, status 0; (c) one error, raised       *)
(* inside the try block, the error message last, status 0; (d) an          *)
(* interrupt or error raised outside the try block or inside an except     *)
(* clause leaves main uncaught, with a non-zero status and without the     *)
(* message of (b) or (c) for it.  The status is non-zero in (a) and (d)    *)
(* only.                                                                   *)
(***************************************************************************)
LastEvent == events[Len(events)]

EndNotFound ==
    /\ escaped = "SystemExit" /\ exitStatus = 1
    /\ events = <<>> /\ port = None
    /\ stdout = <<NotFoundMsg>>

EndFarewell ==
    /\ escaped = "none" /\ exitStatus = 0
    /\ Len(events) = 1 /\ events[1][1] = "KeyboardInterrupt"
    /\ events[1][2] \in TryStatements
    /\ LastOut = FarewellMsg

EndError ==
    /\ escaped = "none" /\ exitStatus = 0
    /\ Len(events) = 1 /\ events[1][1] = "Exception"
    /\ events[1][2] \in TryStatements
    /\ IsErrorMsg(LastOut)

EndUncaught ==
    /\ escaped \in {"KeyboardInterrupt", "Exception"} /\ exitStatus # 0
    /\ events # <<>> /\ LastEvent[1] = escaped
    /\ LastEvent[2] \notin TryStatements
    /\ \/ Len(events) = 1
       \/ /\ Len(events) = 2 /\ events[1][2] \in TryStatements
          /\ LastEvent[2] = IF events[1][1] = "KeyboardInterrupt"
                            THEN "except_ki" ELSE "except_exc"
    /\ LastOut # FarewellMsg /\ ~IsErrorMsg(LastOut)

C7_FourOutcomes ==
    Terminated =>
        /\ EndNotFound \/ EndFarewell \/ EndError \/ EndUncaught
        /\ exitStatus # 0 <=> (EndNotFound \/ EndUncaught)
        /\ ~(EndNotFound /\ EndUncaught) /\ ~(EndFarewell /\ EndError)

\* An interrupt hit the loop and a second one hit the farewell print.
C7_Witness ==
    /\ Terminated /\ EndUncaught
    /\ Len(events) = 2 /\ LastEvent = <<"KeyboardInterrupt", "except_ki">>
    /\ ser = "closed"

(***************************************************************************)
(* C8: discovery runs at most once and the port is opened at most once, on *)
(* the path discovery returned; once anything has been raised (an open     *)
(* failure, an error or interrupt that closed the handle) control is in an *)
(* except clause or the run has ended, so nothing is discovered or opened  *)
(* again.                                                                  *)
(***************************************************************************)
C8_NoRetry ==
    /\ finds <= 1
    /\ Len(opens) <= 1
    /\ opens # <<>> => (finds = 1 /\ port # None /\ opens[1] = port)
    /\ events # <<>> => pc \in {"except_ki", "except_exc", "done"}
    /\ ser = "closed" => (pc \in {"except_ki", "except_exc", "done"} /\ Len(opens) = 1)

\* serial.Serial raised, the error was reported, and the run ended having
\* tried the one path once.
C8_Witness ==
    /\ Terminated /\ events = <<<<"Exception", "open">>>>
    /\ Len(opens) = 1 /\ finds = 1 /\ ser = "none" /\ exitStatus = 0

(***************************************************************************)
(* C9: every byte sequence readline returned is printed as one line, in    *)
(* the order read: the line is the sequence with its invalid bytes         *)
(* removed, decoded, less its trailing whitespace.  Decoding never raises: *)
(* a sequence that was read and is not printed yet is held, decoded and    *)
(* stripped, in `line`, and only an interrupt or error at the print can    *)
(* keep it from being printed.                                             *)
(***************************************************************************)
\* Position i of bs holds a byte of a well-formed one- or two-byte sequence.
ValidAt(bs, i) ==
    \/ IsAscii(bs[i])
    \/ IsLead2(bs[i]) /\ i < Len(bs) /\ IsCont(bs[i + 1])
    \/ IsCont(bs[i]) /\ i > 1 /\ IsLead2(bs[i - 1])

\* bs without its invalid bytes.
RECURSIVE ValidBytesFrom(_, _)
ValidBytesFrom(bs, i) ==
    IF i > Len(bs) THEN <<>>
    ELSE (IF ValidAt(bs, i) THEN <<bs[i]>> ELSE <<>>) \o ValidBytesFrom(bs, i + 1)

\* str.encode('utf-8') for code points below U+0800.
RECURSIVE Utf8Encode(_)
Utf8Encode(s) ==
    IF s = <<>> THEN <<>>
    ELSE (IF s[1] < 128 THEN <<s[1]>>
          ELSE <<192 + (s[1] \div 64), 128 + (s[1] % 64)>>) \o Utf8Encode(Tail(s))

\* Every byte of bs belongs to the encoding of a whitespace character.
OnlyWhitespaceBytes(bs) ==
    \A i \in DOMAIN bs :
        \/ IsAscii(bs[i]) /\ IsSpace(bs[i])
        \/ bs[i] = 194 /\ i < Len(bs) /\ bs[i + 1] \in {133, 160}
        \/ bs[i] \in {133, 160} /\ i > 1 /\ bs[i - 1] = 194

\* text is what bs should print as.
PrintsAs(bs, text) ==
    LET valid == ValidBytesFrom(bs, 1)
        enc == Utf8Encode(text)
    IN  /\ Len(enc) <= Len(valid)
        /\ SubSeq(valid, 1, Len(enc)) = enc
        /\ OnlyWhitespaceBytes(SubSeq(valid, Len(enc) + 1, Len(valid)))
        /\ text = <<>> \/ ~IsSpace(text[Len(text)])

DataLines == SelectSeq(stdout, IsDataLine)

C9_DecodedLines ==
    /\ Len(DataLines) \in {Len(reads), Len(reads) - 1}
    /\ \A i \in DOMAIN DataLines : PrintsAs(reads[i], DataLines[i][2])
    /\ Len(DataLines) < Len(reads) =>
           /\ PrintsAs(reads[Len(reads)], line)
           /\ \/ pc = "print_line"
              \/ events # <<>> /\ events[1][2] = "print_line"
    /\ pc \in {"poll", "readline"} => Len(DataLines) = Len(reads)

\* Two lines were printed, the first from bytes with invalid ones among them
\* and whitespace before the line end, the second a partial line.
C9_Witness ==
    /\ Len(DataLines) = 2 /\ Len(reads) = 2
    /\ reads[1] = <<97, 32, 255, 10>> /\ DataLines[1][2] = <<97>>
    /\ reads[2] = <<97, 195>> /\ DataLines[2][2] = <<97>>

(***************************************************************************)
(* C10: readline is called only after an in_waiting check that reported a  *)
(* non-zero count in the same iteration, one read per such check, and an   *)
(* iteration whose check reports zero reads nothing and prints nothing.    *)
(***************************************************************************)
C10_PollBeforeRead ==
    /\ pc = "readline" => (waiting > 0 /\ polls = Len(reads) + 1)
    /\ pc \in {"poll", "print_line"} => polls = Len(reads)
    /\ Len(reads) <= polls
    /\ Len(DataLines) <= Len(reads)
    /\ (pc = "poll" /\ polls = 0) => (reads = <<>> /\ Len(stdout) = 3)

\* After a line was printed a check found nothing, and nothing more was
\* read or printed.
C10_Witness ==
    /\ pc = "poll" /\ waiting = 0 /\ events = <<>>
    /\ polls = 1 /\ Len(reads) = 1 /\ Len(DataLines) = 1 /\ Len(stdout) = 4

====
